---- MODULE Spec2Model ----
(***************************************************************************)
(* A model of the tuya-to-mqtt bridge: the per-device session supervisor   *)
(* (src/src/tuya/client.rs), the broker task with its publish dedup cache  *)
(* (src/src/mqtt/client.rs) and the orchestrator / command router          *)
(* (src/src/main.rs).                                                      *)
(*                                                                         *)
(* Strings are sequences of one-character strings, so that prefix          *)
(* stripping, splitting and concatenation are computed as the code         *)
(* computes them.                                                          *)
(***************************************************************************)
EXTENDS Integers, Sequences, FiniteSets, TLC

VARIABLES
    \* ---- configuration and channels (main.rs) ----
    devices,    \* config.devices: sequence of DeviceConfig records
    topic_prefix, \* config.mqtt.topic_prefix
    env,        \* the environment of the instance explored: what the broker and
                \* the devices may send, and which history is recorded (trace,
                \* watch, count, tags)
    cap,        \* capacities of the three kinds of mpsc channel
    mqttq,      \* mqtt_cmd channel: broker task -> router (MqttMessage)
    dpq,        \* dp_update channel: sessions -> broker task (DpUpdate)
    cmdq,       \* per device: command channel router -> session (DpCommand)
    queuedAt,   \* history: per device and queued command, the supervisor's backoff
                \* when it was enqueued with no session of the device Active, and
                \* 0 when it was enqueued during an Active period
    \* ---- orchestrator / router (main.rs main loop) ----
    mpc,        \* "select" | "sending" | "stopped"
    held,       \* the command the router is blocked sending, or None
    sig,        \* a shutdown signal (SIGINT/SIGTERM) has been raised
    \* ---- device session supervisor (tuya/client.rs), per device ----
    spc,        \* "connecting" | "active" | "forwarding" | "sleeping" | "aborted"
    backoff,    \* the local `backoff` of TuyaClient::run, in seconds
    pend,       \* DpUpdates of the current inbound batch not yet sent on dp_tx
    lastOp,     \* outcome of the session's latest step (the Err of run_session)
    run,        \* history: session failures since the last Active period (saturating)
    prevDelay,  \* history: the delay slept before the current one in this run (0: none)
    everActive, \* history: some session of this device has reached Active
    queries,    \* history: query_all_dps requests the current session has issued
    ticks,      \* history: poll_timer ticks the current session has consumed
    \* ---- broker task (mqtt/client.rs) ----
    bpc,        \* "select" | "send" | "sleep" | "aborted"
    bmsg,       \* the MqttMessage the broker task is blocked sending, or None
    conn,       \* the event loop holds a broker connection
    subs,       \* topic filters subscribed on the current connection
    online,     \* topics on which a retained "online" was published
    offline,    \* topics on which the broker has delivered the last will "offline"
    cache,      \* last_values: cache_key -> value
    hist,       \* history: per cache key, the latest two updates processed
    \* ---- parse_command_topic applied to drawn inputs ----
    ptopic,     \* the topic drawn
    presult     \* the result of parse_command_topic(ptopic, topic_prefix), once applied

sessVars   == <<spc, backoff, pend, lastOp, run, prevDelay, everActive, queries, ticks>>
brokerVars == <<bpc, bmsg, conn, subs, online, offline, cache, hist>>
mainVars   == <<mpc, held, sig>>
chanVars   == <<mqttq, dpq, cmdq, queuedAt>>
cfgVars    == <<devices, topic_prefix, cap, env>>
parseVars  == <<ptopic, presult>>
vars == <<cfgVars, chanVars, mainVars, sessVars, brokerVars, parseVars>>

(***************************************************************************)
(* Option values and strings                                               *)
(***************************************************************************)
None == [some |-> FALSE]
Some(x) == [some |-> TRUE, val |-> x]

Min(a, b) == IF a <= b THEN a ELSE b

SLASH == <<"/">>
S_command_slash == <<"c", "o", "m", "m", "a", "n", "d", "/">>
S_command == <<"c", "o", "m", "m", "a", "n", "d">>
S_state == <<"s", "t", "a", "t", "e">>

\* str::strip_prefix: the rest of s after p, or None when s does not start with p
StripPrefix(s, p) ==
    IF Len(p) <= Len(s) /\ SubSeq(s, 1, Len(p)) = p
    THEN Some(SubSeq(s, Len(p) + 1, Len(s)))
    ELSE None

\* str::split_once: the parts before and after the first occurrence of ch
SplitOnce(s, ch) ==
    LET hits == {i \in 1..Len(s) : s[i] = ch}
    IN  IF hits = {} THEN None
        ELSE LET i == CHOOSE k \in hits : \A j \in hits : k <= j
             IN  Some(<<SubSeq(s, 1, i - 1), SubSeq(s, i + 1, Len(s))>>)

\* parse_command_topic with the dp_code check left out (a mutant)
ParseCommandTopicNoEmptyCheck(topic, prefix) ==
    LET r1 == StripPrefix(topic, prefix)
    IN  IF ~r1.some THEN None
        ELSE LET r2 == StripPrefix(r1.val, SLASH)
             IN  IF ~r2.some THEN None
                 ELSE LET sp == SplitOnce(r2.val, "/")
                      IN  IF ~sp.some THEN None
                          ELSE LET dc == StripPrefix(sp.val[2], S_command_slash)
                               IN  IF ~dc.some THEN None
                                   ELSE Some(<<sp.val[1], dc.val>>)

\* parse_command_topic(topic, prefix) -> Option<(topic_name, dp_code)>
ParseCommandTopic(topic, prefix) ==
    LET r1 == StripPrefix(topic, prefix)
    IN  IF ~r1.some THEN None
        ELSE LET r2 == StripPrefix(r1.val, SLASH)
             IN  IF ~r2.some THEN None
                 ELSE LET sp == SplitOnce(r2.val, "/")
                      IN  IF ~sp.some THEN None
                          ELSE LET dc == StripPrefix(sp.val[2], S_command_slash)
                               IN  IF ~dc.some THEN None
                                   ELSE IF sp.val[1] = <<>> \/ dc.val = <<>> THEN None
                                   ELSE Some(<<sp.val[1], dc.val>>)

(***************************************************************************)
(* Datapoint translator (tuya/client.rs)                                   *)
(***************************************************************************)
S_mode == <<"m", "o", "d", "e">>
S_switch == <<"s", "w", "i", "t", "c", "h">>
S_fan_speed_enum == <<"f", "a", "n", "_", "s", "p", "e", "e", "d", "_", "e", "n", "u", "m">>
S_cool == <<"c", "o", "o", "l">>
S_cold == <<"c", "o", "l", "d">>
S_heat == <<"h", "e", "a", "t">>
S_hot == <<"h", "o", "t">>
S_fan_only == <<"f", "a", "n", "_", "o", "n", "l", "y">>
S_wind == <<"w", "i", "n", "d">>
S_medium == <<"m", "e", "d", "i", "u", "m">>
S_mid == <<"m", "i", "d">>
S_off == <<"o", "f", "f">>
S_on == <<"o", "n">>
S_true == <<"t", "r", "u", "e">>
S_false == <<"f", "a", "l", "s", "e">>
S_0 == <<"0">>
S_1 == <<"1">>
S_3 == <<"3">>

\* serde_json values, as far as the bridge builds or reads them
JBool(b) == [t |-> "bool", v |-> b]
JNum(n) == [t |-> "num", v |-> n]
JStr(s) == [t |-> "str", v |-> s]

\* a mutant of ha_to_tuya: no enum table
HaToTuyaIdentity(dp_code, value) == value

\* ha_to_tuya(dp_code, value)
ha_to_tuya(dp_code, value) ==
    IF dp_code = S_mode THEN
        CASE value = S_cool -> S_cold
          [] value = S_heat -> S_hot
          [] value = S_fan_only -> S_wind
          [] OTHER -> value
    ELSE IF dp_code = S_fan_speed_enum THEN
        CASE value = S_medium -> S_mid
          [] OTHER -> value
    ELSE value

\* tuya_to_ha(dp_code, value)
tuya_to_ha(dp_code, value) ==
    IF dp_code = S_mode THEN
        CASE value = S_cold -> S_cool
          [] value = S_hot -> S_heat
          [] value = S_wind -> S_fan_only
          [] OTHER -> value
    ELSE IF dp_code = S_fan_speed_enum THEN
        CASE value = S_mid -> S_medium
          [] OTHER -> value
    ELSE value

Digits == <<"0", "1", "2", "3", "4", "5", "6", "7", "8", "9">>
IsDigit(c) == \E i \in 1..10 : Digits[i] = c
DigitVal(c) == (CHOOSE i \in 1..10 : Digits[i] = c) - 1

RECURSIVE DigitsVal(_)
DigitsVal(s) ==
    IF s = <<>> THEN 0 ELSE 10 * DigitsVal(SubSeq(s, 1, Len(s) - 1)) + DigitVal(s[Len(s)])

AllDigits(s) == \A i \in 1..Len(s) : IsDigit(s[i])

\* The Integer coercion of build_command: str::parse::<i64>, and when that
\* fails str::parse::<f64> truncated toward zero.  Payloads of the model are
\* written with digits, a sign and a decimal point only (no exponent, no
\* "inf"/"nan"); 64-bit overflow is outside the payloads drawn.
ParseInteger(raw) ==
    LET neg  == raw # <<>> /\ raw[1] = "-"
        sgn  == raw # <<>> /\ raw[1] \in {"-", "+"}
        body == IF sgn THEN Tail(raw) ELSE raw
        dot  == SplitOnce(body, ".")
        mag(n) == IF neg THEN 0 - n ELSE n
    IN  IF body # <<>> /\ AllDigits(body) THEN Some(mag(DigitsVal(body)))
        ELSE IF dot.some /\ AllDigits(dot.val[1]) /\ AllDigits(dot.val[2])
                /\ (dot.val[1] # <<>> \/ dot.val[2] # <<>>)
             THEN Some(mag(DigitsVal(dot.val[1])))
        ELSE None

\* HashMap::get
MapGet(m, k) == IF k \in DOMAIN m THEN Some(m[k]) ELSE None

\* a mutant of build_command: a Boolean payload that is not a "true" literal
\* is taken as false
BuildCommandLenientBoolean(config, dp_code, raw_value) ==
    LET id == MapGet(config.reverse_mapping, dp_code)
    IN  IF ~id.some THEN None
        ELSE LET info == MapGet(config.dp_mapping, id.val)
             IN  IF ~info.some THEN None
                 ELSE LET converted == ha_to_tuya(dp_code, raw_value)
                          sw == MapGet(config.reverse_mapping, S_switch)
                          ty == info.val.dp_type
                      IN  IF dp_code = S_mode /\ sw.some THEN
                              IF raw_value = S_off
                              THEN Some((sw.val :> JBool(FALSE)))
                              ELSE Some((sw.val :> JBool(TRUE)) @@ (id.val :> JStr(converted)))
                          ELSE CASE ty.kind = "Boolean" ->
                                      Some((id.val :> JBool(raw_value \in {S_true, S_1, S_on})))
                                 [] ty.kind = "Integer" ->
                                      LET n == ParseInteger(raw_value)
                                      IN  IF n.some THEN Some((id.val :> JNum(n.val))) ELSE None
                                 [] ty.kind = "Enum" -> Some((id.val :> JStr(converted)))
                                 [] ty.kind = "Bitmap" -> None

\* build_command(config, dp_code, raw_value) -> Option<DpCommand>; a DpCommand
\* is its dps object, a map dp_id -> JSON value
BuildCommand(config, dp_code, raw_value) ==
    LET id == MapGet(config.reverse_mapping, dp_code)
    IN  IF ~id.some THEN None
        ELSE LET info == MapGet(config.dp_mapping, id.val)
             IN  IF ~info.some THEN None
                 ELSE LET converted == ha_to_tuya(dp_code, raw_value)
                          sw == MapGet(config.reverse_mapping, S_switch)
                          ty == info.val.dp_type
                      IN  IF dp_code = S_mode /\ sw.some THEN
                              IF raw_value = S_off
                              THEN Some((sw.val :> JBool(FALSE)))
                              ELSE Some((sw.val :> JBool(TRUE)) @@ (id.val :> JStr(converted)))
                          ELSE CASE ty.kind = "Boolean" ->
                                      IF raw_value \in {S_true, S_1, S_on}
                                      THEN Some((id.val :> JBool(TRUE)))
                                      ELSE IF raw_value \in {S_false, S_0, S_off}
                                      THEN Some((id.val :> JBool(FALSE)))
                                      ELSE None
                                 [] ty.kind = "Integer" ->
                                      LET n == ParseInteger(raw_value)
                                      IN  IF n.some THEN Some((id.val :> JNum(n.val))) ELSE None
                                 [] ty.kind = "Enum" -> Some((id.val :> JStr(converted)))
                                 [] ty.kind = "Bitmap" -> None

(***************************************************************************)
(* Configuration (config.rs)                                               *)
(***************************************************************************)
S_P == <<"P">>
S_a == <<"a">>
S_b == <<"b">>
S_bridge_status == <<"b", "r", "i", "d", "g", "e", "_", "s", "t", "a", "t", "u", "s">>

\* the topic prefix of the broker messages of the instances explored
TopicPrefix == S_P

\* the reverse_mapping load_devices builds beside dp_mapping (codes distinct)
ReverseOf(dp_mapping) ==
    [c \in {dp_mapping[i].code : i \in DOMAIN dp_mapping} |->
        CHOOSE i \in DOMAIN dp_mapping : dp_mapping[i].code = c]

MakeDevice(name, dp_mapping) ==
    [topic_name |-> name, dp_mapping |-> dp_mapping, reverse_mapping |-> ReverseOf(dp_mapping)]

DevA ==
    MakeDevice(S_a,
        (S_1 :> [code |-> S_switch, dp_type |-> [kind |-> "Boolean"]])
        @@ (S_3 :> [code |-> S_mode, dp_type |-> [kind |-> "Enum", range |-> <<S_cold, S_hot, S_wind>>]]))

DevB ==
    MakeDevice(S_b, (S_1 :> [code |-> S_switch, dp_type |-> [kind |-> "Boolean"]]))

\* Config::device_status_topic
device_status_topic(prefix, topic_name) == prefix \o SLASH \o topic_name \o SLASH \o S_bridge_status

\* Config::device_command_topic
device_command_topic(prefix, topic_name) == prefix \o SLASH \o topic_name \o SLASH \o S_command_slash \o <<"#">>

Dev == DOMAIN devices

\* device_configs.get(topic_name) / device_cmd_txs.get(topic_name): both maps are
\* filled in the order of config.devices, a later device replacing an earlier
\* one of the same topic_name
DeviceLookup(topic_name) ==
    LET hits == {d \in Dev : devices[d].topic_name = topic_name}
    IN  IF hits = {} THEN None
        ELSE Some(CHOOSE d \in hits : \A e \in hits : e <= d)

(***************************************************************************)
(* Device messages and process_message (tuya/client.rs)                    *)
(***************************************************************************)
S_dps == <<"d", "p", "s">>
S_null == <<"n", "u", "l", "l">>
JNull == [t |-> "null"]
JObj(m) == [t |-> "obj", v |-> m]

\* the characters of the model's strings, in ASCII order
Ascii ==
    <<"#", "-", ".", "/", "0", "1", "2", "3", "4", "5", "6", "7", "8", "9", "_",
      "a", "b", "c", "d", "e", "f", "g", "h", "i", "j", "k", "l", "m",
      "n", "o", "p", "q", "r", "s", "t", "u", "v", "w", "x", "y", "z">>
CharRank(c) == CHOOSE i \in DOMAIN Ascii : Ascii[i] = c

\* byte-wise string order (the key order of serde_json's default map)
RECURSIVE StrLess(_, _)
StrLess(x, y) ==
    IF y = <<>> THEN FALSE
    ELSE IF x = <<>> THEN TRUE
    ELSE IF x[1] = y[1] THEN StrLess(Tail(x), Tail(y))
    ELSE CharRank(x[1]) < CharRank(y[1])

RECURSIVE SortedKeys(_)
SortedKeys(S) ==
    IF S = {} THEN <<>>
    ELSE LET k == CHOOSE x \in S : \A y \in S \ {x} : StrLess(x, y)
         IN  <<k>> \o SortedKeys(S \ {k})

RECURSIVE NatToStr(_)
NatToStr(n) ==
    IF n < 10 THEN <<Digits[n + 1]>> ELSE NatToStr(n \div 10) \o <<Digits[(n % 10) + 1]>>

\* bool::to_string / Number::to_string / Value::to_string
IntToStr(n) == IF n < 0 THEN <<"-">> \o NatToStr(0 - n) ELSE NatToStr(n)

\* a mutant of ValueStr: booleans as 1 and 0
ValueStrBoolAsDigit(dp_code, value) ==
    CASE value.t = "bool" -> IF value.v THEN S_1 ELSE S_0
      [] value.t = "num" -> IntToStr(value.v)
      [] value.t = "str" -> tuya_to_ha(dp_code, value.v)
      [] OTHER -> S_null

\* value_str of process_message
ValueStr(dp_code, value) ==
    CASE value.t = "bool" -> IF value.v THEN S_true ELSE S_false
      [] value.t = "num" -> IntToStr(value.v)
      [] value.t = "str" -> tuya_to_ha(dp_code, value.v)
      [] OTHER -> S_null

\* dps_value of process_message: the dps of whichever payload shape arrived.
\* A String payload is given by what serde_json::from_str makes of it.
DpsValue(payload) ==
    CASE payload.shape = "Struct" -> payload.dps
      [] payload.shape = "String" ->
            IF payload.json.some /\ payload.json.val.t = "obj"
               /\ S_dps \in DOMAIN payload.json.val.v
            THEN Some(payload.json.val.v[S_dps])
            ELSE None
      [] OTHER -> None

\* the DpUpdates process_message sends for one message, in sending order
ProcessMessage(config, msg) ==
    LET dps == DpsValue(msg.payload)
    IN  IF ~dps.some \/ dps.val.t # "obj" THEN <<>>
        ELSE LET m    == dps.val.v
                 keys == SortedKeys(DOMAIN m)
                 code(id) == IF id \in DOMAIN config.dp_mapping
                             THEN config.dp_mapping[id].code ELSE id
             IN  [i \in 1..Len(keys) |->
                    [topic_name |-> config.topic_name,
                     dp_code    |-> code(keys[i]),
                     value      |-> ValueStr(code(keys[i]), m[keys[i]])]]

\* a mutant of ProcessBatch: heartbeat messages are processed like the others
RECURSIVE ProcessBatchAll(_, _)
ProcessBatchAll(config, messages) ==
    IF messages = <<>> THEN <<>>
    ELSE ProcessMessage(config, Head(messages)) \o ProcessBatchAll(config, Tail(messages))

\* the DpUpdates of one inbound batch: heartbeat messages are skipped
RECURSIVE ProcessBatch(_, _)
ProcessBatch(config, messages) ==
    IF messages = <<>> THEN <<>>
    ELSE (IF Head(messages).command = "HeartBeat" THEN <<>>
          ELSE ProcessMessage(config, Head(messages)))
         \o ProcessBatch(config, Tail(messages))

StructMsg(m) == [command |-> "Status", payload |-> [shape |-> "Struct", dps |-> Some(JObj(m))]]
StringMsg(m) == [command |-> "Status", payload |-> [shape |-> "String", json |-> Some(JObj((S_dps :> JObj(m))))]]
HeartBeatMsg == [command |-> "HeartBeat", payload |-> [shape |-> "Raw"]]

\* inbound batches of the instances explored
BatchTrue == <<StructMsg((S_1 :> JBool(TRUE)))>>
BatchFalse == <<StructMsg((S_1 :> JBool(FALSE)))>>
BatchHeartBeat == <<HeartBeatMsg>>
BatchMode == <<HeartBeatMsg, StringMsg((S_3 :> JStr(S_cold)))>>

(***************************************************************************)
(* Device session supervisor: TuyaClient::run and run_session              *)
(***************************************************************************)
BaseBackoff == 5
MaxBackoff == 60
\* bound of the history counter `run`: it saturates at MaxFail
MaxFail == 7

otherVarsOfSession == <<cfgVars, mainVars, brokerVars, parseVars>>

\* bound of the history counters `queries` and `ticks`: they saturate here
MaxQueries == 3

\* the session of d is in the select loop of run_session
IsActive(d) == spc[d] \in {"active", "forwarding"}

\* history: the entry of the command the session takes leaves with it
Taken(tags) == IF tags = <<>> THEN tags ELSE Tail(tags)

\* history: the command the router appends to d's channel is marked
Tagged(d) ==
    IF d \in env.tags
    THEN [queuedAt EXCEPT ![d] = Append(@, IF IsActive(d) THEN 0 ELSE backoff[d])]
    ELSE queuedAt

\* history: a step of the session of d that issues no query
NoQuery == UNCHANGED <<queries, ticks>>

\* history: query_all_dps is called in the poll arm, at a tick of poll_timer
QueryAtTick(d) ==
    /\ queries' = [queries EXCEPT ![d] = IF d \in env.count THEN Min(@ + 1, MaxQueries) ELSE @]
    /\ ticks' = [ticks EXCEPT ![d] = IF d \in env.count THEN Min(@ + 1, MaxQueries) ELSE @]

\* a mutant of NextBackoff: the cap is applied before doubling
NextBackoffCapFirst(b) == 2 * Min(b, MaxBackoff)

\* backoff = (backoff * 2).min(max_backoff)
NextBackoff(b) == Min(b * 2, MaxBackoff)

\* a mutant of EndSession: the supervisor returns the session's error
EndSessionReturns(d, e) ==
    /\ spc' = [spc EXCEPT ![d] = "returned"]
    /\ lastOp' = [lastOp EXCEPT ![d] = e]
    /\ UNCHANGED <<backoff, pend, run, prevDelay, everActive>>

\* run_session returns Err(e): run logs it and starts sleeping for `backoff`
EndSession(d, e) ==
    /\ spc' = [spc EXCEPT ![d] = "sleeping"]
    /\ lastOp' = [lastOp EXCEPT ![d] = e]
    /\ run' = [run EXCEPT ![d] = IF d \in env.trace THEN Min(@ + 1, MaxFail) ELSE @]
    /\ UNCHANGED <<backoff, pend, prevDelay, everActive>>

\* an Active step that leaves the session running
StayActive(d, op) ==
    /\ lastOp' = [lastOp EXCEPT ![d] = op]
    /\ UNCHANGED <<spc, backoff, pend, run, prevDelay, everActive>>

\* TuyaDevice::new or device.connect() fails
ConnectFailed(d) ==
    /\ spc[d] = "connecting"
    /\ NoQuery
    /\ EndSession(d, "connect_failed")
    /\ UNCHANGED <<chanVars, otherVarsOfSession>>

\* connect() succeeds and the initial query_all_dps fails
InitialQueryFailed(d) ==
    /\ spc[d] = "connecting"
    /\ queries' = [queries EXCEPT ![d] = IF d \in env.count THEN 1 ELSE @]
    /\ UNCHANGED ticks
    /\ EndSession(d, "query_failed")
    /\ UNCHANGED <<chanVars, otherVarsOfSession>>

\* a mutant of EnterActive: the first tick of poll_timer is not consumed
EnterActiveNoSkip(d) ==
    /\ spc[d] = "connecting"
    /\ spc' = [spc EXCEPT ![d] = "active"]
    /\ lastOp' = [lastOp EXCEPT ![d] = "ok"]
    /\ run' = [run EXCEPT ![d] = 0]
    /\ prevDelay' = [prevDelay EXCEPT ![d] = 0]
    /\ everActive' = [everActive EXCEPT ![d] = (d \in env.trace)]
    /\ queries' = [queries EXCEPT ![d] = IF d \in env.count THEN 1 ELSE @]
    /\ UNCHANGED ticks
    /\ UNCHANGED <<backoff, pend>>
    /\ UNCHANGED <<chanVars, otherVarsOfSession>>

\* connect() and the initial query succeed (one query_all_dps, not at a tick);
\* the timers are created and the poll timer's first tick is consumed without
\* a query: the session is Active.  The Ok(()) arm of run (the only place that
\* resets backoff) is never taken: run_session has no path that returns Ok.
EnterActive(d) ==
    /\ spc[d] = "connecting"
    /\ spc' = [spc EXCEPT ![d] = "active"]
    /\ lastOp' = [lastOp EXCEPT ![d] = "ok"]
    /\ run' = [run EXCEPT ![d] = 0]
    /\ prevDelay' = [prevDelay EXCEPT ![d] = 0]
    /\ everActive' = [everActive EXCEPT ![d] = (d \in env.trace)]
    /\ queries' = [queries EXCEPT ![d] = IF d \in env.count THEN 1 ELSE @]
    /\ ticks' = [ticks EXCEPT ![d] = IF d \in env.count THEN 1 ELSE @]
    /\ UNCHANGED <<backoff, pend>>
    /\ UNCHANGED <<chanVars, otherVarsOfSession>>

\* heartbeat tick, device.heartbeat() succeeds
Heartbeat(d) ==
    /\ spc[d] = "active"
    /\ NoQuery
    /\ StayActive(d, "ok")
    /\ UNCHANGED <<chanVars, otherVarsOfSession>>

\* heartbeat tick, device.heartbeat() fails
HeartbeatFailed(d) ==
    /\ spc[d] = "active"
    /\ NoQuery
    /\ EndSession(d, "heartbeat_failed")
    /\ UNCHANGED <<chanVars, otherVarsOfSession>>

\* poll tick, query_all_dps succeeds
Poll(d) ==
    /\ spc[d] = "active"
    /\ QueryAtTick(d)
    /\ StayActive(d, "ok")
    /\ UNCHANGED <<chanVars, otherVarsOfSession>>

\* poll tick, query_all_dps fails: the `?` returns the error
PollFailed(d) ==
    /\ spc[d] = "active"
    /\ QueryAtTick(d)
    /\ EndSession(d, "query_failed")
    /\ UNCHANGED <<chanVars, otherVarsOfSession>>

\* receiver.recv() yields Some(Ok(messages)): their readings are to be sent
Recv(d, batch) ==
    /\ spc[d] = "active"
    /\ NoQuery
    /\ LET ups == ProcessBatch(devices[d], batch)
       IN  /\ pend' = [pend EXCEPT ![d] = ups]
           /\ spc' = [spc EXCEPT ![d] = IF ups = <<>> THEN "active" ELSE "forwarding"]
    /\ lastOp' = [lastOp EXCEPT ![d] = "ok"]
    /\ UNCHANGED <<backoff, run, prevDelay, everActive>>
    /\ UNCHANGED <<chanVars, otherVarsOfSession>>

\* a mutant of Forward: the newest pending update is sent first
ForwardNewestFirst(d) ==
    /\ spc[d] = "forwarding"
    /\ NoQuery
    /\ Len(dpq) < cap.dp
    /\ dpq' = Append(dpq, pend[d][Len(pend[d])])
    /\ pend' = [pend EXCEPT ![d] = SubSeq(@, 1, Len(@) - 1)]
    /\ spc' = [spc EXCEPT ![d] = IF Len(pend[d]) = 1 THEN "active" ELSE "forwarding"]
    /\ UNCHANGED <<backoff, lastOp, run, prevDelay, everActive>>
    /\ UNCHANGED <<mqttq, cmdq, queuedAt, otherVarsOfSession>>

\* dp_tx.send(update).await completes once the update channel has room
Forward(d) ==
    /\ spc[d] = "forwarding"
    /\ NoQuery
    /\ Len(dpq) < cap.dp
    /\ dpq' = Append(dpq, Head(pend[d]))
    /\ pend' = [pend EXCEPT ![d] = Tail(@)]
    /\ spc' = [spc EXCEPT ![d] = IF Tail(pend[d]) = <<>> THEN "active" ELSE "forwarding"]
    /\ UNCHANGED <<backoff, lastOp, run, prevDelay, everActive>>
    /\ UNCHANGED <<mqttq, cmdq, queuedAt, otherVarsOfSession>>

\* receiver.recv() yields Some(Err(e))
RecvError(d) ==
    /\ spc[d] = "active"
    /\ NoQuery
    /\ EndSession(d, "device_error")
    /\ UNCHANGED <<chanVars, otherVarsOfSession>>

\* receiver.recv() yields None
RecvClosed(d) ==
    /\ spc[d] = "active"
    /\ NoQuery
    /\ EndSession(d, "channel_closed")
    /\ UNCHANGED <<chanVars, otherVarsOfSession>>

\* a mutant of Command: the newest command is written first
CommandNewestFirst(d) ==
    /\ spc[d] = "active"
    /\ NoQuery
    /\ cmdq[d] # <<>>
    /\ cmdq' = [cmdq EXCEPT ![d] = SubSeq(@, 1, Len(@) - 1)]
    /\ queuedAt' = [queuedAt EXCEPT ![d] = SubSeq(@, 1, Len(@) - 1)]
    /\ StayActive(d, "ok")
    /\ UNCHANGED <<mqttq, dpq, otherVarsOfSession>>

\* cmd_rx.recv() yields a command and device.set_values succeeds
Command(d) ==
    /\ spc[d] = "active"
    /\ NoQuery
    /\ cmdq[d] # <<>>
    /\ cmdq' = [cmdq EXCEPT ![d] = Tail(@)]
    /\ queuedAt' = [queuedAt EXCEPT ![d] = Taken(@)]
    /\ StayActive(d, "ok")
    /\ UNCHANGED <<mqttq, dpq, otherVarsOfSession>>

\* a mutant of CommandFailed: the write error is returned like the others
CommandFailedEndsSession(d) ==
    /\ spc[d] = "active"
    /\ NoQuery
    /\ cmdq[d] # <<>>
    /\ cmdq' = [cmdq EXCEPT ![d] = Tail(@)]
    /\ queuedAt' = [queuedAt EXCEPT ![d] = Taken(@)]
    /\ EndSession(d, "write_failed")
    /\ UNCHANGED <<mqttq, dpq, otherVarsOfSession>>

\* a mutant of CommandFailed: the command is kept for another attempt
CommandFailedRetries(d) ==
    /\ spc[d] = "active"
    /\ NoQuery
    /\ cmdq[d] # <<>>
    /\ StayActive(d, "write_failed")
    /\ UNCHANGED <<chanVars, otherVarsOfSession>>

\* cmd_rx.recv() yields a command and device.set_values fails: warn only
CommandFailed(d) ==
    /\ spc[d] = "active"
    /\ NoQuery
    /\ cmdq[d] # <<>>
    /\ cmdq' = [cmdq EXCEPT ![d] = Tail(@)]
    /\ queuedAt' = [queuedAt EXCEPT ![d] = Taken(@)]
    /\ StayActive(d, "write_failed")
    /\ UNCHANGED <<mqttq, dpq, otherVarsOfSession>>

\* a mutant of Wake: every session gets a command channel of its own
WakeNewChannel(d) ==
    /\ spc[d] = "sleeping"
    /\ spc' = [spc EXCEPT ![d] = "connecting"]
    /\ prevDelay' = [prevDelay EXCEPT ![d] = IF d \in env.trace THEN backoff[d] ELSE @]
    /\ backoff' = [backoff EXCEPT ![d] = NextBackoff(@)]
    /\ lastOp' = [lastOp EXCEPT ![d] = "ok"]
    /\ queries' = [queries EXCEPT ![d] = 0]
    /\ ticks' = [ticks EXCEPT ![d] = 0]
    /\ cmdq' = [cmdq EXCEPT ![d] = <<>>]
    /\ queuedAt' = [queuedAt EXCEPT ![d] = <<>>]
    /\ UNCHANGED <<pend, run, everActive>>
    /\ UNCHANGED <<mqttq, dpq, otherVarsOfSession>>

\* tokio::time::sleep(backoff) is over: backoff is doubled, run loops and
\* calls run_session again with the same cmd_rx
Wake(d) ==
    /\ spc[d] = "sleeping"
    /\ spc' = [spc EXCEPT ![d] = "connecting"]
    /\ prevDelay' = [prevDelay EXCEPT ![d] = IF d \in env.trace THEN backoff[d] ELSE @]
    /\ backoff' = [backoff EXCEPT ![d] = NextBackoff(@)]
    /\ lastOp' = [lastOp EXCEPT ![d] = "ok"]
    /\ queries' = [queries EXCEPT ![d] = 0]
    /\ ticks' = [ticks EXCEPT ![d] = 0]
    /\ UNCHANGED <<pend, run, everActive>>
    /\ UNCHANGED <<chanVars, otherVarsOfSession>>

SessionStep(d) ==
    \/ ConnectFailed(d) \/ InitialQueryFailed(d) \/ EnterActive(d)
    \/ Heartbeat(d) \/ HeartbeatFailed(d) \/ Poll(d) \/ PollFailed(d)
    \/ (\E batch \in env.batches : Recv(d, batch))
    \/ Forward(d) \/ RecvError(d) \/ RecvClosed(d)
    \/ Command(d) \/ CommandFailed(d) \/ Wake(d)

(***************************************************************************)
(* Broker task: MqttClient::run                                            *)
(***************************************************************************)
otherVarsOfBroker == <<cfgVars, mainVars, sessVars, parseVars>>

CommandTopic(name, code) == TopicPrefix \o SLASH \o name \o SLASH \o S_command_slash \o code

\* broker messages of the instances explored
MsgSwitchOnA == [topic |-> CommandTopic(S_a, S_switch), payload |-> S_on]
MsgModeHeatA == [topic |-> CommandTopic(S_a, S_mode), payload |-> S_heat]
MsgSwitchOffB == [topic |-> CommandTopic(S_b, S_switch), payload |-> S_off]
MsgStateA ==
    [topic |-> TopicPrefix \o SLASH \o S_a \o SLASH \o S_state \o SLASH \o S_switch,
     payload |-> S_on]

\* the last will registered in MqttClient::new: the topic of the "offline"
\* marker (retained, QoS 1)
LwtTopic ==
    IF Len(devices) = 1
    THEN device_status_topic(topic_prefix, devices[1].topic_name)
    ELSE topic_prefix \o SLASH \o S_bridge_status

\* the broker delivers the will when the connection ends without a DISCONNECT
WillDelivered(lost) == IF lost THEN offline \cup {LwtTopic} ELSE offline

\* command_tx.send(msg).await: enqueue, or wait while the channel is full
SendToRouter(m) ==
    IF Len(mqttq) < cap.mqtt
    THEN /\ mqttq' = Append(mqttq, m)
         /\ bpc' = "select"
         /\ bmsg' = None
    ELSE /\ bpc' = "send"
         /\ bmsg' = Some(m)
         /\ UNCHANGED mqttq

\* eventloop.poll() yields Incoming::ConnAck in the select branch
BrokerConnAck ==
    /\ bpc = "select"
    /\ ~conn
    /\ conn' = TRUE
    /\ online' = online \cup
            {device_status_topic(topic_prefix, devices[d].topic_name) : d \in Dev}
    /\ subs' = {device_command_topic(topic_prefix, devices[d].topic_name) : d \in Dev}
    /\ UNCHANGED <<bpc, bmsg, offline, cache, hist, chanVars, otherVarsOfBroker>>

\* eventloop.poll() yields Incoming::Publish in the select branch
BrokerIncoming(m) ==
    /\ bpc = "select"
    /\ conn
    /\ SendToRouter(m)
    /\ UNCHANGED <<conn, subs, online, offline, cache, hist, dpq, cmdq, queuedAt, otherVarsOfBroker>>

\* the blocked command_tx.send completes
BrokerSend ==
    /\ bpc = "send"
    /\ Len(mqttq) < cap.mqtt
    /\ SendToRouter(bmsg.val)
    /\ UNCHANGED <<conn, subs, online, offline, cache, hist, dpq, cmdq, queuedAt, otherVarsOfBroker>>

\* eventloop.poll() yields Err in the select branch: log, sleep 5 s
BrokerError ==
    /\ bpc = "select"
    /\ bpc' = "sleep"
    /\ conn' = FALSE
    /\ subs' = {}
    /\ offline' = WillDelivered(conn)
    /\ UNCHANGED <<bmsg, online, cache, hist, chanVars, otherVarsOfBroker>>

\* the 5 s sleep is over
BrokerWake ==
    /\ bpc = "sleep"
    /\ bpc' = "select"
    /\ UNCHANGED <<bmsg, conn, subs, online, offline, cache, hist, chanVars, otherVarsOfBroker>>

CacheKey(u) == u.topic_name \o SLASH \o u.dp_code

\* format!("{}/{}/state/{}", topic_prefix, update.topic_name, update.dp_code)
StateTopic(prefix, u) == prefix \o SLASH \o u.topic_name \o SLASH \o S_state \o SLASH \o u.dp_code

S_solar_power == <<"s", "o", "l", "a", "r", "_", "p", "o", "w", "e", "r">>
S_grid_power == <<"g", "r", "i", "d", "_", "p", "o", "w", "e", "r">>
S_grid_percent == <<"g", "r", "i", "d", "_", "p", "e", "r", "c", "e", "n", "t">>

\* a mutant of Retain: every state publish is retained
RetainAlways(dp_code) == TRUE

\* let retain = !matches!(dp_code, "solar_power" | "grid_power" | "grid_percent")
Retain(dp_code) == dp_code \notin {S_solar_power, S_grid_power, S_grid_percent}

\* a mutant of ShouldPublish: no dedup
ShouldPublishAlways(before, value) == TRUE

\* last_values.get(&cache_key) != Some(&update.value)
ShouldPublish(before, value) == before # Some(value)

HistOf(h, k) == IF k \in DOMAIN h THEN h[k] ELSE <<>>

\* history: the latest two updates processed for key k, for the keys watched
Remember(h, k, rec) ==
    LET old == HistOf(h, k)
        new == IF Len(old) < 2 THEN Append(old, rec) ELSE <<old[2], rec>>
    IN  IF k \in env.watch THEN (k :> new) @@ h ELSE h

\* what the flush poll after a state publish may yield
FlushEvents == {"other", "publish", "error", "connack"}

\* dp_rx.recv() yields an update: dedup check, cache insert, publish, and on a
\* successful publish call one more eventloop.poll()
BrokerDpRecv ==
    /\ bpc = "select"
    /\ dpq # <<>>
    /\ dpq' = Tail(dpq)
    /\ LET u      == Head(dpq)
           key    == CacheKey(u)
           before == MapGet(cache, key)
           rec(called, ok) ==
               [value |-> u.value, before |-> before, called |-> called, ok |-> ok,
                topic |-> StateTopic(topic_prefix, u), retain |-> Retain(u.dp_code)]
       IN  IF ~ShouldPublish(before, u.value)
           THEN /\ hist' = Remember(hist, key, rec(FALSE, FALSE))
                /\ UNCHANGED <<cache, bpc, bmsg, conn, subs, mqttq>>
           ELSE /\ cache' = (key :> u.value) @@ cache
                /\ \/ \* client.publish fails: warn, continue
                      /\ hist' = Remember(hist, key, rec(TRUE, FALSE))
                      /\ UNCHANGED <<bpc, bmsg, conn, subs, mqttq>>
                   \/ \* client.publish succeeds: poll the event loop once
                      /\ hist' = Remember(hist, key, rec(TRUE, TRUE))
                      /\ \E ev \in FlushEvents :
                            \/ /\ ev = "other"
                               /\ UNCHANGED <<bpc, bmsg, conn, subs, mqttq>>
                            \/ /\ ev = "publish"
                               /\ conn
                               /\ \E m \in env.inMsgs : SendToRouter(m)
                               /\ UNCHANGED <<conn, subs>>
                            \/ /\ ev = "error"
                               /\ conn' = FALSE
                               /\ subs' = {}
                               /\ UNCHANGED <<bpc, bmsg, mqttq>>
                            \/ /\ ev = "connack"
                               /\ ~conn
                               /\ conn' = TRUE
                               /\ UNCHANGED <<bpc, bmsg, subs, mqttq>>
    /\ offline' = WillDelivered(conn /\ ~conn')
    /\ UNCHANGED <<online, cmdq, queuedAt, otherVarsOfBroker>>

BrokerStep ==
    \/ BrokerConnAck
    \/ (\E m \in env.inMsgs : BrokerIncoming(m))
    \/ BrokerSend \/ BrokerError \/ BrokerWake \/ BrokerDpRecv

(***************************************************************************)
(* Orchestrator: the routing loop and shutdown of main                     *)
(***************************************************************************)
otherVarsOfMain == <<cfgVars, parseVars>>

\* the arms of the routing branch: parse, device lookup, build_command
RouteOf(msg) ==
    LET p == ParseCommandTopic(msg.topic, topic_prefix)
    IN  IF ~p.some THEN None
        ELSE LET dv == DeviceLookup(p.val[1])
             IN  IF ~dv.some THEN None
                 ELSE LET c == BuildCommand(devices[dv.val], p.val[2], msg.payload)
                      IN  IF ~c.some THEN None
                          ELSE Some([dev |-> dv.val, cmd |-> c.val])

\* a mutant of SendCommand: try_send, the command is dropped when the channel is full
TrySendCommand(r) ==
    /\ cmdq' = [cmdq EXCEPT ![r.dev] = IF Len(@) < cap.cmd THEN Append(@, r.cmd) ELSE @]
    /\ queuedAt' = IF Len(cmdq[r.dev]) < cap.cmd THEN Tagged(r.dev) ELSE queuedAt
    /\ mpc' = "select"
    /\ held' = None

\* cmd_tx.send(cmd).await: enqueue, or wait while the channel is full
SendCommand(r) ==
    IF Len(cmdq[r.dev]) < cap.cmd
    THEN /\ cmdq' = [cmdq EXCEPT ![r.dev] = Append(@, r.cmd)]
         /\ queuedAt' = Tagged(r.dev)
         /\ mpc' = "select"
         /\ held' = None
    ELSE /\ mpc' = "sending"
         /\ held' = Some(r)
         /\ UNCHANGED <<cmdq, queuedAt>>

\* mqtt_cmd_rx.recv() yields a message
RouterRecv ==
    /\ mpc = "select"
    /\ mqttq # <<>>
    /\ mqttq' = Tail(mqttq)
    /\ LET r == RouteOf(Head(mqttq))
       IN  IF r.some THEN SendCommand(r.val)
           ELSE UNCHANGED <<cmdq, queuedAt, mpc, held>>
    /\ UNCHANGED <<dpq, sig, sessVars, brokerVars, otherVarsOfMain>>

\* the blocked cmd_tx.send completes
RouterSend ==
    /\ mpc = "sending"
    /\ Len(cmdq[held.val.dev]) < cap.cmd
    /\ SendCommand(held.val)
    /\ UNCHANGED <<mqttq, dpq, sig, sessVars, brokerVars, otherVarsOfMain>>

\* SIGINT or SIGTERM is raised
Signal ==
    /\ mpc # "stopped"
    /\ ~sig
    /\ sig' = TRUE
    /\ UNCHANGED <<mpc, held, chanVars, sessVars, brokerVars, otherVarsOfMain>>

\* a signal branch of the select is taken: break, abort every task, return
HandleSignal ==
    /\ mpc = "select"
    /\ sig
    /\ mpc' = "stopped"
    /\ spc' = [d \in Dev |-> "aborted"]
    /\ bpc' = "aborted"
    /\ UNCHANGED <<held, sig, chanVars, otherVarsOfMain>>
    /\ UNCHANGED <<backoff, pend, lastOp, run, prevDelay, everActive, queries, ticks>>
    /\ offline' = WillDelivered(conn)
    /\ UNCHANGED <<bmsg, conn, subs, online, cache, hist>>

MainStep == RouterRecv \/ RouterSend \/ Signal \/ HandleSignal

(***************************************************************************)
(* The bridge                                                              *)
(***************************************************************************)
\* bounds of the instances explored: channel depths scaled down
SmallCmdDepth == 2
SmallMqttDepth == 1
SmallDpDepth == 2

NotApplied == [done |-> FALSE]
Applied(x) == [done |-> TRUE, out |-> x]

ParseIdle ==
    /\ ptopic = <<>>
    /\ presult = Applied(None)

\* the state main has built when the routing loop starts
InitTasks(devs, caps, e) ==
    /\ devices = devs
    /\ cap = caps
    /\ env = e
    /\ dpq = <<>>
    /\ cmdq = [d \in DOMAIN devs |-> <<>>]
    /\ queuedAt = [d \in DOMAIN devs |-> <<>>]
    /\ mpc = "select"
    /\ held = None
    /\ sig = FALSE
    /\ spc = [d \in DOMAIN devs |-> "connecting"]
    /\ backoff = [d \in DOMAIN devs |-> BaseBackoff]
    /\ pend = [d \in DOMAIN devs |-> <<>>]
    /\ lastOp = [d \in DOMAIN devs |-> "start"]
    /\ run = [d \in DOMAIN devs |-> 0]
    /\ prevDelay = [d \in DOMAIN devs |-> 0]
    /\ everActive = [d \in DOMAIN devs |-> FALSE]
    /\ queries = [d \in DOMAIN devs |-> 0]
    /\ ticks = [d \in DOMAIN devs |-> 0]
    /\ bpc = "select"
    /\ bmsg = None
    /\ conn = FALSE
    /\ subs = {}
    /\ online = {}
    /\ offline = {}
    /\ cache = <<>>
    /\ hist = <<>>

InitBridge(devs, caps, e) ==
    /\ InitTasks(devs, caps, e)
    /\ topic_prefix = TopicPrefix
    /\ mqttq = <<>>

SmallCaps == [mqtt |-> SmallMqttDepth, dp |-> SmallDpDepth, cmd |-> SmallCmdDepth]

Init ==
    /\ InitBridge(<<DevA>>, SmallCaps,
            [inMsgs |-> {MsgSwitchOnA}, batches |-> {BatchTrue}, trace |-> {}, watch |-> {},
             count |-> {}, tags |-> {}])
    /\ ParseIdle

Next ==
    \/ (\E d \in Dev : SessionStep(d))
    \/ BrokerStep
    \/ MainStep

Spec == Init /\ [][Next]_vars

(***************************************************************************)
(* parse_command_topic on drawn topics, and the router on the same topics  *)
(***************************************************************************)
\* bound: a drawn topic is a head followed by at most MaxPieces pieces
MaxPieces == 6

TopicPieces == {SLASH, S_a, S_command, S_switch}
TopicHeads == {<<>>, S_P, <<"Q">>}
TopicPrefixes == {<<>>, S_P}

RECURSIVE Flatten(_)
Flatten(ss) == IF ss = <<>> THEN <<>> ELSE Head(ss) \o Flatten(Tail(ss))

\* topics of other shapes: a state topic, a near miss of the literal
ExtraTopics ==
    { S_P \o SLASH \o S_a \o SLASH \o S_state \o SLASH \o S_switch,
      S_P \o SLASH \o S_a \o SLASH \o <<"c", "o", "m", "m", "a", "n", "d", "s">> \o SLASH \o S_switch,
      S_P \o SLASH \o S_a \o SLASH \o S_command_slash \o S_switch \o SLASH \o S_state }

DrawnTopics ==
    ExtraTopics \cup
    { h \o Flatten(ps) : h \in TopicHeads,
                         ps \in UNION {[1..n -> TopicPieces] : n \in 0..MaxPieces} }

\* the router is handed one message with the drawn topic
InitParse ==
    /\ InitTasks(<<DevA>>, SmallCaps,
            [inMsgs |-> {}, batches |-> {}, trace |-> {}, watch |-> {},
             count |-> {}, tags |-> {}])
    /\ topic_prefix \in TopicPrefixes
    /\ ptopic \in DrawnTopics
    /\ mqttq = <<[topic |-> ptopic, payload |-> S_on]>>
    /\ presult = NotApplied

ParseApply ==
    /\ ~presult.done
    /\ presult' = Applied(ParseCommandTopic(ptopic, topic_prefix))
    /\ UNCHANGED <<ptopic, cfgVars, chanVars, mainVars, sessVars, brokerVars>>

NextParse == ParseApply \/ RouterRecv

SpecParse == InitParse /\ [][NextParse]_vars

\* C9's reading of the template: the (topic_name, dp_code) with
\* topic = prefix + "/" + topic_name + "/command/" + dp_code, topic_name
\* non-empty and free of "/", dp_code non-empty; the set of name lengths that fit
TemplateFits(topic, prefix) ==
    LET L   == Len(topic)
        mid == SLASH \o S_command_slash
        nameOf(ln) == SubSeq(topic, Len(prefix) + 2, Len(prefix) + 1 + ln)
        codeOf(ln) == SubSeq(topic, Len(prefix) + 1 + ln + Len(mid) + 1, L)
    IN  { ln \in 1..L :
            /\ Len(prefix) + 1 + ln + Len(mid) < L
            /\ topic = prefix \o SLASH \o nameOf(ln) \o mid \o codeOf(ln)
            /\ \A i \in 1..ln : nameOf(ln)[i] # "/" }

TemplateParse(topic, prefix) ==
    LET fits == TemplateFits(topic, prefix)
        mid  == SLASH \o S_command_slash
    IN  IF fits = {} THEN None
        ELSE LET ln == CHOOSE x \in fits : TRUE
             IN  Some(<<SubSeq(topic, Len(prefix) + 2, Len(prefix) + 1 + ln),
                        SubSeq(topic, Len(prefix) + 1 + ln + Len(mid) + 1, Len(topic))>>)

\* C9: parse_command_topic returns (topic_name, dp_code) exactly when the topic
\* is prefix/topic_name/command/dp_code with topic_name non-empty and free of
\* "/" and dp_code non-empty, and None otherwise; a message whose topic does
\* not parse is consumed by the router without any command being enqueued or held.
C9_ParseExactlyTemplate ==
    /\ Cardinality(TemplateFits(ptopic, topic_prefix)) <= 1
    /\ presult.done => presult.out = TemplateParse(ptopic, topic_prefix)
    /\ (mqttq = <<>> /\ ~TemplateParse(ptopic, topic_prefix).some) =>
          /\ \A d \in Dev : cmdq[d] = <<>>
          /\ mpc = "select"
          /\ held = None

\* a well-formed command topic has been parsed and its command routed
C9_Witness ==
    /\ ptopic = CommandTopic(S_a, S_switch)
    /\ topic_prefix = S_P
    /\ presult = Applied(Some(<<S_a, S_switch>>))
    /\ mqttq = <<>>
    /\ cmdq[1] = <<(S_1 :> JBool(TRUE))>>

\* topics that are rejected are among the topics drawn
C9_RejectsSeen ==
    /\ presult = Applied(None)
    /\ ptopic = S_P \o SLASH \o S_a \o SLASH \o S_command_slash
    /\ mqttq = <<>>

(***************************************************************************)
(* The session supervisor of one device, with the router feeding its       *)
(* command channel and the broker task draining the update channel         *)
(***************************************************************************)
InitSession ==
    /\ InitBridge(<<DevA>>, SmallCaps,
            [inMsgs |-> {MsgSwitchOnA}, batches |-> {BatchTrue}, trace |-> {1}, watch |-> {},
             count |-> {}, tags |-> {}])
    /\ ParseIdle

NextSession ==
    \/ (\E d \in Dev : SessionStep(d))
    \/ BrokerConnAck
    \/ (\E m \in env.inMsgs : BrokerIncoming(m))
    \/ BrokerSend
    \/ BrokerDpRecv
    \/ RouterRecv
    \/ RouterSend

SpecSession == InitSession /\ [][NextSession]_vars

\* the delays of C1, by position in a run of failures
ClaimedDelay(k) == IF k <= 6 THEN <<5, 10, 20, 40, 60, 60>>[k] ELSE 60

C2_ResetAfterActive ==
    \A d \in Dev \cap env.trace :
        (spc[d] = "sleeping" /\ everActive[d] /\ run[d] = 1) => backoff[d] = BaseBackoff

\* C5 as stated: a session leaves Active only on a connect failure, a heartbeat
\* send failure, the end of the inbound stream or an error on it.
C5_LeavesActiveOnlyOnListed ==
    [][\A d \in Dev :
          (spc[d] \in {"active", "forwarding"} /\ spc'[d] = "sleeping") =>
              lastOp'[d] \in {"connect_failed", "heartbeat_failed",
                              "channel_closed", "device_error"}]_vars

\* C5 amended: a session ends only on a connect failure, a failed query request
\* (the initial query or a poll), a heartbeat send failure, the end of the
\* inbound stream or an error on it; a failed command write never ends it.
C5_SessionEndsOnlyOn ==
    [][\A d \in Dev :
          (spc[d] # "sleeping" /\ spc'[d] = "sleeping") =>
              \/ /\ spc[d] = "connecting"
                 /\ lastOp'[d] \in {"connect_failed", "query_failed"}
              \/ /\ spc[d] = "active"
                 /\ lastOp'[d] \in {"query_failed", "heartbeat_failed",
                                    "channel_closed", "device_error"}]_vars

\* an Active session has ended on a failed poll query
C5_Witness ==
    /\ spc[1] = "sleeping"
    /\ lastOp[1] = "query_failed"
    /\ everActive[1]
    /\ run[1] = 1

\* the step in which a command write of device d fails
WriteFailedStep(d) ==
    /\ cmdq[d] # <<>>
    /\ lastOp'[d] = "write_failed"
    /\ lastOp[d] # "write_failed" \/ Len(cmdq'[d]) < Len(cmdq[d])

\* C6: a failed command write leaves the session Active: the command is taken
\* off the channel and not written again, backoff is unchanged, and the session
\* goes on with heartbeats, polls, inbound messages and later commands.
C6_WriteFailureKeepsSession ==
    /\ [][\A d \in Dev :
             WriteFailedStep(d) =>
                 /\ spc[d] = "active" /\ spc'[d] = "active"
                 /\ backoff'[d] = backoff[d]
                 /\ cmdq'[d] = Tail(cmdq[d])
                 /\ run'[d] = run[d]]_vars
    /\ [](\A d \in Dev :
             (lastOp[d] = "write_failed" /\ spc[d] # "aborted") =>
                 /\ spc[d] = "active"
                 /\ ENABLED Heartbeat(d)
                 /\ ENABLED Poll(d)
                 /\ \A b \in env.batches : ENABLED Recv(d, b)
                 /\ cmdq[d] # <<>> => ENABLED Command(d))

\* a write has failed after earlier session failures, and a later command waits
C6_Witness ==
    /\ lastOp[1] = "write_failed"
    /\ spc[1] = "active"
    /\ backoff[1] = 20
    /\ cmdq[1] # <<>>

(***************************************************************************)
(* The publish path: one device's readings through the update channel to   *)
(* the broker task's dedup cache                                           *)
(***************************************************************************)
KeySwitchA == CacheKey([topic_name |-> S_a, dp_code |-> S_switch])

InitPublish ==
    /\ InitBridge(<<DevA>>, SmallCaps,
            [inMsgs |-> {}, batches |-> {BatchTrue, BatchFalse},
             trace |-> {}, watch |-> {KeySwitchA},
             count |-> {}, tags |-> {}])
    /\ ParseIdle

NextPublish ==
    \/ (\E d \in Dev : SessionStep(d))
    \/ BrokerConnAck
    \/ BrokerError
    \/ BrokerWake
    \/ BrokerDpRecv

SpecPublish == InitPublish /\ [][NextPublish]_vars

\* the latest two updates processed for a watched key are r[1] then r[2]
TwoUpdates(k) == Len(HistOf(hist, k)) = 2

\* C3 as stated: of two consecutive updates of one key, equal values give one
\* publish call (for the first) and unequal values two, and after a publish
\* the cache entry is the value published.
C3_PairPublishesAsStated ==
    \A k \in env.watch :
        TwoUpdates(k) =>
            LET r == hist[k]
            IN  /\ r[1].value = r[2].value => (r[1].called /\ ~r[2].called)
                /\ r[1].value # r[2].value => (r[1].called /\ r[2].called)
                /\ r[2].called => MapGet(cache, k) = Some(r[2].value)

\* C3 amended: of two consecutive updates of one key, the first arriving when
\* the cache entry is absent or differs from its value, the first is published;
\* the second is published exactly when its value differs from the first's;
\* and after every update processed the cache entry is that update's value.
C3_DedupConsecutive ==
    \A k \in env.watch :
        /\ HistOf(hist, k) # <<>> =>
                LET last == hist[k][Len(hist[k])]
                IN  /\ MapGet(cache, k) = Some(last.value)
                    /\ last.called <=> (last.before # Some(last.value))
        /\ TwoUpdates(k) =>
                LET r == hist[k]
                IN  /\ r[2].before = Some(r[1].value)
                    /\ r[1].before # Some(r[1].value) =>
                            /\ r[1].called
                            /\ r[2].called <=> (r[2].value # r[1].value)

\* a first reading was published and the same reading after it was suppressed
C3_Witness ==
    /\ TwoUpdates(KeySwitchA)
    /\ hist[KeySwitchA][1].before = None
    /\ hist[KeySwitchA][1].called
    /\ hist[KeySwitchA][2].value = hist[KeySwitchA][1].value
    /\ ~hist[KeySwitchA][2].called

\* C4: after an update whose publish call failed, the next update of the same
\* key is published again, also when it carries the same value.
C4_FailedPublishReattempted ==
    \A k \in env.watch :
        TwoUpdates(k) =>
            LET r == hist[k]
            IN  (r[1].called /\ ~r[1].ok) => r[2].called

\* C4, its last clause: a value whose publish failed is not left in the cache
C4_FailedValueNotRecorded ==
    \A k \in env.watch :
        HistOf(hist, k) # <<>> =>
            LET last == hist[k][Len(hist[k])]
            IN  (last.called /\ ~last.ok) => MapGet(cache, k) # Some(last.value)

(***************************************************************************)
(* The router in front of one device's command channel, at its real depth  *)
(***************************************************************************)
\* mpsc::channel::<tuya::DpCommand>(50)
CmdChannelDepth == 50

InitRouter ==
    /\ InitBridge(<<DevA>>,
            [mqtt |-> SmallMqttDepth, dp |-> SmallDpDepth, cmd |-> CmdChannelDepth],
            [inMsgs |-> {MsgSwitchOnA, MsgStateA}, batches |-> {}, trace |-> {}, watch |-> {},
             count |-> {}, tags |-> {}])
    /\ ParseIdle

NextRouter ==
    \/ (\E d \in Dev : SessionStep(d))
    \/ BrokerConnAck
    \/ (\E m \in env.inMsgs : BrokerIncoming(m))
    \/ BrokerSend
    \/ RouterRecv
    \/ RouterSend

SpecRouter == InitRouter /\ [][NextRouter]_vars

\* the step in which the router takes a message that build_command accepts
RoutesCommand ==
    /\ mpc = "select"
    /\ mqttq # <<>>
    /\ mqttq' = Tail(mqttq)
    /\ RouteOf(Head(mqttq)).some

\* C10: a command that build_command produced is enqueued at once when its
\* device's channel has room; when the channel is full the router holds the
\* command and waits, and when its wait ends the held command is enqueued; a
\* device's channel never holds more than 50 commands.
C10_RouterBlocksNoDrop ==
    /\ [](\A d \in Dev : Len(cmdq[d]) <= CmdChannelDepth)
    /\ [](mpc = "sending" => held.some)
    /\ [][RoutesCommand =>
             LET r == RouteOf(Head(mqttq)).val
             IN  \/ /\ Len(cmdq[r.dev]) < CmdChannelDepth
                    /\ cmdq'[r.dev] = Append(cmdq[r.dev], r.cmd)
                    /\ mpc' = "select"
                 \/ /\ Len(cmdq[r.dev]) = CmdChannelDepth
                    /\ cmdq' = cmdq
                    /\ mpc' = "sending"
                    /\ held' = Some(r)]_vars
    /\ [][mpc = "sending" =>
             \/ mpc' = "sending" /\ held' = held
             \/ /\ mpc' = "select"
                /\ Len(cmdq[held.val.dev]) < CmdChannelDepth
                /\ cmdq'[held.val.dev] = Append(cmdq[held.val.dev], held.val.cmd)]_vars

\* the channel holds 50 commands and the router waits with the 51st
C10_Witness ==
    /\ mpc = "sending"
    /\ held.some
    /\ Len(cmdq[held.val.dev]) = CmdChannelDepth

(***************************************************************************)
(* Two device supervisors, the broker task and the orchestrator under      *)
(* failures: the sleeps of the retry loops end                             *)
(***************************************************************************)
InitRetry ==
    /\ InitBridge(<<DevA, DevB>>, SmallCaps,
            [inMsgs |-> {}, batches |-> {}, trace |-> {}, watch |-> {},
             count |-> {}, tags |-> {}])
    /\ ParseIdle

NextRetry ==
    \/ (\E d \in Dev : SessionStep(d))
    \/ BrokerConnAck
    \/ BrokerError
    \/ BrokerWake
    \/ Signal
    \/ HandleSignal

\* tokio's timers fire: a sleeping supervisor and the sleeping broker loop wake
FairRetry ==
    /\ WF_vars(Wake(1))
    /\ WF_vars(Wake(2))
    /\ WF_vars(BrokerWake)

SpecRetry == InitRetry /\ [][NextRetry]_vars /\ FairRetry

Running == {"connecting", "active", "forwarding", "sleeping"}

InitShutdown ==
    /\ InitBridge(<<DevA>>, SmallCaps,
            [inMsgs |-> {MsgSwitchOnA}, batches |-> {}, trace |-> {}, watch |-> {},
             count |-> {}, tags |-> {}])
    /\ ParseIdle

NextShutdown ==
    \/ (\E d \in Dev : SessionStep(d))
    \/ BrokerConnAck
    \/ (\E m \in env.inMsgs : BrokerIncoming(m))
    \/ BrokerSend
    \/ RouterRecv
    \/ RouterSend
    \/ Signal
    \/ HandleSignal

\* WF_vars(RouterRecv), its ENABLED written as RouterRecv's guard (every
\* RouterRecv step takes a message off mqttq)
FairRouterRecv ==
    \/ []<>(~(mpc = "select" /\ mqttq # <<>>))
    \/ []<><<RouterRecv>>_vars

\* every task that can take a step is scheduled, a session that is Active again
\* and again with a command waiting takes it, and a signal arm that is ready
\* again and again is taken; whether a device accepts a connection is not a
\* matter of scheduling.  The signal is modelled as latched (sig stays TRUE),
\* which can only help the orchestrator see it.
FairShutdown ==
    /\ WF_vars(SessionStep(1))
    /\ SF_vars(Command(1) \/ CommandFailed(1))
    /\ WF_vars(BrokerSend)
    /\ FairRouterRecv
    /\ WF_vars(RouterSend)
    /\ SF_vars(HandleSignal)

SpecShutdown == InitShutdown /\ [][NextShutdown]_vars /\ FairShutdown

\* C8: whenever a shutdown signal has been raised, the orchestrator eventually
\* leaves the routing loop and stops, every task aborted.
C8_SignalEventuallyStops ==
    sig ~> (mpc = "stopped" /\ bpc = "aborted" /\ \A d \in Dev : spc[d] = "aborted")

\* C8, its safety part: once stopped nothing is routed and every task is aborted
C8_StoppedRoutesNothing ==
    /\ [](mpc = "stopped" => (bpc = "aborted" /\ \A d \in Dev : spc[d] = "aborted"))
    /\ [][mpc = "stopped" => (mqttq' = mqttq /\ cmdq' = cmdq /\ mpc' = "stopped")]_vars

(***************************************************************************)
(* Two devices behind the one router                                       *)
(***************************************************************************)
InitTwo ==
    /\ InitBridge(<<DevA, DevB>>, SmallCaps,
            [inMsgs |-> {MsgSwitchOnA, MsgSwitchOffB}, batches |-> {},
             trace |-> {}, watch |-> {},
             count |-> {}, tags |-> {}])
    /\ ParseIdle

NextTwo ==
    \/ (\E d \in Dev : SessionStep(d))
    \/ BrokerConnAck
    \/ (\E m \in env.inMsgs : BrokerIncoming(m))
    \/ BrokerSend
    \/ RouterRecv
    \/ RouterSend

SpecTwo == InitTwo /\ [][NextTwo]_vars

\* C11: a command for device B that is next in the router's channel, with room
\* in B's command channel, is not kept waiting by device A: the router is at
\* its select to take it, or is itself sending to B.
C11_OtherDeviceNotDelayed ==
    (mpc # "stopped" /\ mqttq # <<>>) =>
        LET r == RouteOf(Head(mqttq))
        IN  (r.some /\ Len(cmdq[r.val.dev]) < cap.cmd) =>
                (mpc = "select" \/ held.val.dev = r.val.dev)

(***************************************************************************)
(* One device's command channel with two kinds of command                  *)
(***************************************************************************)
InitFifo ==
    /\ InitBridge(<<DevA>>, SmallCaps,
            [inMsgs |-> {MsgSwitchOnA, MsgModeHeatA}, batches |-> {},
             trace |-> {}, watch |-> {},
             count |-> {}, tags |-> {}])
    /\ ParseIdle

NextFifo ==
    \/ (\E d \in Dev : SessionStep(d))
    \/ BrokerConnAck
    \/ (\E m \in env.inMsgs : BrokerIncoming(m))
    \/ BrokerSend
    \/ RouterRecv
    \/ RouterSend

SpecFifo == InitFifo /\ [][NextFifo]_vars

\* the step in which the session of d hands a command to device.set_values
WritesCommand(d) ==
    /\ spc[d] = "active"
    /\ spc'[d] = "active"
    /\ lastOp'[d] \in {"ok", "write_failed"}
    /\ cmdq'[d] # cmdq[d]

\* C12: a device's command channel changes only by the router appending a
\* command at its end and by the Active session taking the command at its
\* front to write it, once; a session that ends, sleeps or reconnects leaves
\* the channel as it is.  So the commands are written in the order enqueued.
C12_CommandsFifo ==
    /\ [][\A d \in Dev :
             cmdq'[d] # cmdq[d] =>
                 \/ /\ WritesCommand(d)
                    /\ cmdq[d] # <<>>
                    /\ cmdq'[d] = Tail(cmdq[d])
                 \/ /\ mpc \in {"select", "sending"}
                    /\ spc' = spc
                    /\ \E c \in {BuildCommand(devices[d], S_switch, S_on).val,
                                 BuildCommand(devices[d], S_mode, S_heat).val} :
                            cmdq'[d] = Append(cmdq[d], c)]_vars
    /\ [][\A d \in Dev : spc'[d] # spc[d] => cmdq'[d] = cmdq[d]]_vars

\* two different commands wait in order while the session is backing off after
\* an Active period
C12_Witness ==
    /\ spc[1] = "sleeping"
    /\ backoff[1] >= 10
    /\ Len(cmdq[1]) = 2
    /\ cmdq[1][1] # cmdq[1][2]

(***************************************************************************)
(* The order of one device's readings on the way to the dedup cache        *)
(***************************************************************************)
\* one batch of two messages for the same datapoint, and one for another
BatchTrueFalse == <<StructMsg((S_1 :> JBool(TRUE))), StructMsg((S_1 :> JBool(FALSE)))>>

InitOrder ==
    /\ InitBridge(<<DevA>>, SmallCaps,
            [inMsgs |-> {}, batches |-> {BatchTrueFalse, BatchMode},
             trace |-> {}, watch |-> {KeySwitchA},
             count |-> {}, tags |-> {}])
    /\ ParseIdle

NextOrder ==
    \/ (\E d \in Dev : SessionStep(d))
    \/ BrokerConnAck
    \/ BrokerError
    \/ BrokerWake
    \/ BrokerDpRecv

SpecOrder == InitOrder /\ [][NextOrder]_vars

\* C13: the readings of a batch are kept in the order received, a session puts
\* them on the update channel one by one from the front and starts no other
\* batch before the last is sent; the broker task takes updates from the front
\* of the channel and checks and writes the cache for each before the next; the
\* cache entry of a key changes at no other step.
C13_UpdatesInOrder ==
    /\ [][\A d \in Dev :
             pend'[d] # pend[d] =>
                 \/ /\ pend[d] = <<>>
                    /\ dpq' = dpq
                    /\ \E b \in env.batches : pend'[d] = ProcessBatch(devices[d], b)
                 \/ /\ pend[d] # <<>>
                    /\ pend'[d] = Tail(pend[d])
                    /\ dpq' = Append(dpq, Head(pend[d]))]_vars
    /\ [][dpq' # dpq =>
             \/ \E d \in Dev : pend[d] # <<>> /\ pend'[d] = Tail(pend[d])
                                /\ dpq' = Append(dpq, Head(pend[d]))
             \/ /\ dpq # <<>>
                /\ dpq' = Tail(dpq)
                /\ pend' = pend
                /\ MapGet(cache', CacheKey(Head(dpq))) = Some(Head(dpq).value)
                /\ \A k \in (DOMAIN cache \cup DOMAIN cache') \ {CacheKey(Head(dpq))} :
                        MapGet(cache', k) = MapGet(cache, k)]_vars
    /\ [][cache' # cache => (dpq # <<>> /\ dpq' = Tail(dpq))]_vars
    /\ [](\A d \in Dev : \A b \in env.batches :
             Len(b) = 2 =>
                 ProcessBatch(devices[d], b) =
                     ProcessBatch(devices[d], <<b[1]>>) \o ProcessBatch(devices[d], <<b[2]>>))

\* "true" then "false" of one batch were published in that order, and the
\* cache holds the later one
C13_Witness ==
    /\ TwoUpdates(KeySwitchA)
    /\ hist[KeySwitchA][1].value = S_true
    /\ hist[KeySwitchA][1].called
    /\ hist[KeySwitchA][2].value = S_false
    /\ hist[KeySwitchA][2].called
    /\ hist[KeySwitchA][2].before = Some(S_true)
    /\ MapGet(cache, KeySwitchA) = Some(S_false)
    /\ dpq = <<>>

(***************************************************************************)
(* build_command behind the router: one broker message drawn, three        *)
(* devices with different mapping tables                                   *)
(***************************************************************************)
S_target_temp == <<"t", "a", "r", "g", "e", "t", "_", "t", "e", "m", "p">>
S_fault == <<"f", "a", "u", "l", "t">>
S_zz == <<"z", "z">>
S_m == <<"m">>
S_x == <<"x">>
S_2 == <<"2">>
S_4 == <<"4">>
S_5 == <<"5">>
S_auto == <<"a", "u", "t", "o">>

\* mode without a switch, an Integer and a Bitmap datapoint
DevM ==
    MakeDevice(S_m,
        (S_2 :> [code |-> S_target_temp, dp_type |-> [kind |-> "Integer"]])
        @@ (S_3 :> [code |-> S_mode, dp_type |-> [kind |-> "Enum", range |-> <<>>]])
        @@ (S_5 :> [code |-> S_fault, dp_type |-> [kind |-> "Bitmap"]]))

\* a switch, and a mode datapoint that the device listing types as Bitmap
DevX ==
    MakeDevice(S_x,
        (S_1 :> [code |-> S_switch, dp_type |-> [kind |-> "Boolean"]])
        @@ (S_4 :> [code |-> S_mode, dp_type |-> [kind |-> "Bitmap"]]))

BuildNames == {S_a, S_m, S_x, S_b}
BuildCodes == {S_mode, S_switch, S_target_temp, S_fault, S_fan_speed_enum, S_zz, S_1}
BuildPayloads ==
    {S_true, S_1, S_on, S_false, S_0, S_off, <<>>,
     <<"T", "r", "u", "e">>, <<"O", "N">>, <<"y", "e", "s">>, <<"m", "a", "y", "b", "e">>, <<" ", "o", "n">>,
     S_heat, S_cool, S_fan_only, S_hot, S_auto, S_medium,
     <<"2", "1">>, <<"-", "5">>, <<"2", ".", "5">>}

InitBuild ==
    /\ InitTasks(<<DevA, DevM, DevX>>, SmallCaps,
            [inMsgs |-> {}, batches |-> {}, trace |-> {}, watch |-> {},
             count |-> {}, tags |-> {}])
    /\ topic_prefix = TopicPrefix
    /\ \E name \in BuildNames, code \in BuildCodes, payload \in BuildPayloads :
            mqttq = <<[topic |-> CommandTopic(name, code), payload |-> payload]>>
    /\ ParseIdle

NextBuild ==
    \/ RouterRecv
    \/ (\E d \in Dev : EnterActive(d))
    \/ (\E d \in Dev : Command(d))
    \/ (\E d \in Dev : CommandFailed(d))

SpecBuild == InitBuild /\ [][NextBuild]_vars

\* the mapping table read directly: the dp_id whose entry has the code
HasCode(config, code) == \E i \in DOMAIN config.dp_mapping : config.dp_mapping[i].code = code
IdOfCode(config, code) == CHOOSE i \in DOMAIN config.dp_mapping : config.dp_mapping[i].code = code
KindOfCode(config, code) == config.dp_mapping[IdOfCode(config, code)].dp_type.kind

\* the step in which the router takes a broker message
RouteStep == mpc = "select" /\ mqttq # <<>> /\ mqttq' = Tail(mqttq)

\* the router takes the message and sends nothing to any device
NothingEnqueued == cmdq' = cmdq /\ held' = held /\ mpc' = "select"

\* the router takes the message and sends exactly command c to device d
Enqueued(d, c) ==
    /\ cmdq' = [cmdq EXCEPT ![d] = Append(@, c)]
    /\ held' = held
    /\ mpc' = "select"

\* the routed message addresses a configured device with a well-formed topic
Addressed(msg) ==
    LET p == ParseCommandTopic(msg.topic, topic_prefix)
    IN  p.some /\ DeviceLookup(p.val[1]).some

TargetOf(msg) == DeviceLookup(ParseCommandTopic(msg.topic, topic_prefix).val[1]).val
CodeOf(msg) == ParseCommandTopic(msg.topic, topic_prefix).val[2]

\* the compound case of build_command applies
IsCompound(config, code) ==
    code = S_mode /\ HasCode(config, S_mode) /\ HasCode(config, S_switch)

\* C14: a "mode" command for a device that has a mode and a switch datapoint
\* is compound: payload "off" gives exactly {switch_dp_id: false}; any other
\* payload gives exactly {switch_dp_id: true, mode_dp_id: ha_to_tuya("mode",
\* payload)}, and "heat" gives mode "hot".
C14_CompoundMode ==
    [][RouteStep =>
          LET msg == Head(mqttq)
          IN  (Addressed(msg) /\ IsCompound(devices[TargetOf(msg)], CodeOf(msg))) =>
                  LET d  == TargetOf(msg)
                      sw == IdOfCode(devices[d], S_switch)
                      md == IdOfCode(devices[d], S_mode)
                  IN  /\ msg.payload = S_off => Enqueued(d, (sw :> JBool(FALSE)))
                      /\ msg.payload # S_off =>
                            Enqueued(d, (sw :> JBool(TRUE))
                                        @@ (md :> JStr(ha_to_tuya(S_mode, msg.payload))))
                      /\ msg.payload = S_heat =>
                            Enqueued(d, (sw :> JBool(TRUE)) @@ (md :> JStr(S_hot)))]_vars

\* device a holds the compound command of "heat"
C14_Witness ==
    /\ mqttq = <<>>
    /\ cmdq[1] = <<(S_1 :> JBool(TRUE)) @@ (S_3 :> JStr(S_hot))>>
    /\ cmdq[2] = <<>>
    /\ cmdq[3] = <<>>

\* C15: a command for a Boolean datapoint, outside the compound mode case, is
\* {dp_id: true} exactly for the payloads "true", "1", "on", {dp_id: false}
\* exactly for "false", "0", "off", and for every other payload there is no
\* command: nothing is enqueued on any command channel.
C15_BooleanCoercion ==
    [][RouteStep =>
          LET msg == Head(mqttq)
          IN  (/\ Addressed(msg)
               /\ HasCode(devices[TargetOf(msg)], CodeOf(msg))
               /\ KindOfCode(devices[TargetOf(msg)], CodeOf(msg)) = "Boolean"
               /\ ~IsCompound(devices[TargetOf(msg)], CodeOf(msg))) =>
                  LET d  == TargetOf(msg)
                      id == IdOfCode(devices[d], CodeOf(msg))
                  IN  /\ msg.payload \in {S_true, S_1, S_on} <=> Enqueued(d, (id :> JBool(TRUE)))
                      /\ msg.payload \in {S_false, S_0, S_off} <=> Enqueued(d, (id :> JBool(FALSE)))
                      /\ msg.payload \notin {S_true, S_1, S_on, S_false, S_0, S_off}
                            <=> NothingEnqueued]_vars

\* device x holds {switch_dp_id: true} alone, which only a switch payload of
\* "true", "1" or "on" gives (a compound command has a mode entry beside it)
C15_Witness ==
    /\ mqttq = <<>>
    /\ mpc = "select"
    /\ cmdq[3] = <<(S_1 :> JBool(TRUE))>>
    /\ cmdq[1] = <<>>
    /\ cmdq[2] = <<>>

\* C16: a command the router enqueues has only dp_ids of the target device's
\* mapping table; a message whose dp_code is not in the target's mapping, or
\* names a Bitmap datapoint, gives no command and nothing is enqueued.
C16_OnlyMappedNoBitmap ==
    [][RouteStep =>
          LET msg == Head(mqttq)
          IN  /\ \A d \in Dev :
                    cmdq'[d] # cmdq[d] =>
                        DOMAIN cmdq'[d][Len(cmdq'[d])] \subseteq DOMAIN devices[d].dp_mapping
              /\ Addressed(msg) =>
                    LET cfg == devices[TargetOf(msg)]
                    IN  (\/ ~HasCode(cfg, CodeOf(msg))
                         \/ KindOfCode(cfg, CodeOf(msg)) = "Bitmap") => NothingEnqueued]_vars

(***************************************************************************)
(* Enum values from a device and back: a device whose own mode names are   *)
(* the bridge-side ones                                                    *)
(***************************************************************************)
S_h == <<"h">>
S_6 == <<"6">>
S_9 == <<"9">>
S_work_state == <<"w", "o", "r", "k", "_", "s", "t", "a", "t", "e">>
S_low == <<"l", "o", "w">>
S_21 == <<"2", "1">>

DevH ==
    MakeDevice(S_h,
        (S_1 :> [code |-> S_switch, dp_type |-> [kind |-> "Boolean"]])
        @@ (S_2 :> [code |-> S_target_temp, dp_type |-> [kind |-> "Integer"]])
        @@ (S_3 :> [code |-> S_mode,
                    dp_type |-> [kind |-> "Enum", range |-> <<S_cool, S_heat, S_auto>>]])
        @@ (S_5 :> [code |-> S_fan_speed_enum,
                    dp_type |-> [kind |-> "Enum", range |-> <<S_low, S_mid>>]])
        @@ (S_6 :> [code |-> S_work_state,
                    dp_type |-> [kind |-> "Enum", range |-> <<S_cool, S_medium>>]]))

\* one message with the one reading dp_id = "v"
BatchStr(id, v) == <<StructMsg((id :> JStr(v)))>>

RoundBatches ==
    {BatchStr(S_3, v) : v \in {S_cold, S_cool, S_heat, S_auto}}
    \cup {BatchStr(S_5, v) : v \in {S_low, S_mid}}
    \cup {BatchStr(S_6, v) : v \in {S_cool, S_medium}}

InitRound ==
    /\ InitBridge(<<DevH>>, SmallCaps,
            [inMsgs |-> {}, batches |-> RoundBatches, trace |-> {}, watch |-> {},
             count |-> {}, tags |-> {}])
    /\ ParseIdle

NextRound ==
    \/ (\E d \in Dev : SessionStep(d))
    \/ BrokerDpRecv

SpecRound == InitRound /\ [][NextRound]_vars

\* the readings of a batch of one Struct message
ReadingOf(b) == b[1].payload.dps.val.v

\* v is in the declared enum range of datapoint id
InRange(config, id, v) ==
    /\ id \in DOMAIN config.dp_mapping
    /\ config.dp_mapping[id].dp_type.kind = "Enum"
    /\ \E i \in DOMAIN config.dp_mapping[id].dp_type.range :
            config.dp_mapping[id].dp_type.range[i] = v

\* C17: a value v of a datapoint's declared enum range, reported by the device
\* and converted for the broker, converts back to v; for a dp_code other than
\* "mode" and "fan_speed_enum" both conversions change nothing.
C17_RoundTrip ==
    \A d \in Dev : \A b \in env.batches :
        (pend[d] # <<>> /\ pend[d] = ProcessBatch(devices[d], b)) =>
            \A id \in DOMAIN ReadingOf(b) :
                LET v == ReadingOf(b)[id].v
                    u == pend[d][1]
                IN  /\ InRange(devices[d], id, v) => ha_to_tuya(u.dp_code, u.value) = v
                    /\ u.dp_code \notin {S_mode, S_fan_speed_enum} =>
                            (u.value = v /\ ha_to_tuya(u.dp_code, u.value) = u.value)

\* C18: the topics that get the retained "online" marker and the topics that
\* get the last-will "offline" marker are the same: P/{topic_name}/bridge_status
\* of every device when more than one device is configured, and P/bridge_status
\* alone when exactly one is.
C18_AvailabilityTopics ==
    LET claimed ==
            IF Len(devices) > 1
            THEN {topic_prefix \o SLASH \o devices[d].topic_name \o SLASH \o S_bridge_status :
                     d \in Dev}
            ELSE {topic_prefix \o SLASH \o S_bridge_status}
    IN  /\ online \subseteq claimed
        /\ offline \subseteq claimed
        /\ conn => online = claimed
        /\ (online # {} /\ ~conn) => offline = claimed

(***************************************************************************)
(* Readings of one device from the inbound message to the state publish    *)
(***************************************************************************)
\* the message {"1": true, "2": 21}
BatchSwitchTemp == <<StructMsg((S_1 :> JBool(TRUE)) @@ (S_2 :> JNum(21)))>>
\* a reading of a datapoint that is not in the mapping table, as a String payload
BatchUnmapped == <<StringMsg((S_9 :> JNum(5)))>>
\* a heartbeat acknowledgement that carries readings
HeartBeatDpsMsg ==
    [command |-> "HeartBeat",
     payload |-> [shape |-> "Struct", dps |-> Some(JObj((S_1 :> JBool(FALSE))))]]
BatchHeartBeatDps == <<HeartBeatDpsMsg>>
\* a heartbeat acknowledgement, then a mode reading
BatchBeatThenMode == <<HeartBeatDpsMsg, StructMsg((S_3 :> JStr(S_cold)))>>

ReadingBatches == {BatchSwitchTemp, BatchUnmapped, BatchHeartBeatDps, BatchBeatThenMode}

KeyOf(name, code) == CacheKey([topic_name |-> name, dp_code |-> code])

InitReadings ==
    /\ InitBridge(<<DevH>>, SmallCaps,
            [inMsgs |-> {}, batches |-> ReadingBatches, trace |-> {},
             watch |-> {KeyOf(S_h, S_switch), KeyOf(S_h, S_target_temp)},
             count |-> {}, tags |-> {}])
    /\ ParseIdle

NextReadings ==
    \/ (\E d \in Dev : EnterActive(d))
    \/ (\E d \in Dev : \E batch \in env.batches : Recv(d, batch))
    \/ (\E d \in Dev : Forward(d))
    \/ BrokerDpRecv

SpecReadings == InitReadings /\ [][NextReadings]_vars

\* the messages of a batch that are not heartbeat acknowledgements
Decoded(b) == SelectSeq(b, LAMBDA m : m.command # "HeartBeat")

\* the readings of a message, whichever payload shape carries them
DpsOf(msg) ==
    IF msg.payload.shape = "Struct" THEN msg.payload.dps.val.v
    ELSE msg.payload.json.val.v[S_dps].v

\* the text of a reading as C19 gives it
TextOf(code, value) ==
    CASE value.t = "bool" -> IF value.v THEN S_true ELSE S_false
      [] value.t = "num" -> IntToStr(value.v)
      [] value.t = "str" -> tuya_to_ha(code, value.v)

\* the StateUpdate C19 and C20 expect for reading id of a message
ExpectedUpdate(config, msg, id) ==
    LET code == IF id \in DOMAIN config.dp_mapping THEN config.dp_mapping[id].code ELSE id
    IN  [topic_name |-> config.topic_name, dp_code |-> code,
         value |-> TextOf(code, DpsOf(msg)[id])]

\* the updates a session has taken from a batch: what it still holds to send
\* is a tail of what process_message made of some batch
HoldsTailOf(d, ups) == \E n \in 0..Len(ups) : pend[d] = SubSeq(ups, n + 1, Len(ups))

\* C19: every reading of a decoded message gives exactly one StateUpdate with
\* the device's topic_name, the mapped dp_code and the value as text; and an
\* update that meets an empty cache entry is published, once, on
\* P/{topic_name}/state/{dp_code}.  {"1": true, "2": 21} gives (switch, "true")
\* and (target_temp, "21") and two publishes.
C19_ReadingToPublish ==
    /\ \A d \in Dev : \A b \in env.batches :
          LET ups == ProcessBatch(devices[d], b)
          IN  Len(Decoded(b)) = 1 =>
                  LET msg == Decoded(b)[1]
                  IN  /\ Len(ups) = Cardinality(DOMAIN DpsOf(msg))
                      /\ \A id \in DOMAIN DpsOf(msg) :
                            Cardinality({i \in DOMAIN ups :
                                ups[i] = ExpectedUpdate(devices[d], msg, id)}) = 1
    /\ ProcessBatch(devices[1], BatchSwitchTemp) =
            <<[topic_name |-> S_h, dp_code |-> S_switch, value |-> S_true],
              [topic_name |-> S_h, dp_code |-> S_target_temp, value |-> S_21]>>
    /\ \A d \in Dev : \E b \in env.batches : HoldsTailOf(d, ProcessBatch(devices[d], b))
    /\ \A i \in DOMAIN dpq : \E d \in Dev : \E b \in env.batches :
            \E j \in DOMAIN ProcessBatch(devices[d], b) :
                dpq[i] = ProcessBatch(devices[d], b)[j]
    /\ \A k \in env.watch : \A i \in DOMAIN HistOf(hist, k) :
            hist[k][i].before = None =>
                /\ hist[k][i].called
                /\ \E d \in Dev : \E code \in {S_switch, S_target_temp, S_9, S_mode} :
                      /\ k = devices[d].topic_name \o SLASH \o code
                      /\ hist[k][i].topic =
                            topic_prefix \o SLASH \o devices[d].topic_name \o SLASH
                                \o S_state \o SLASH \o code

\* both readings of {"1": true, "2": 21} were published from an empty cache
C19_Witness ==
    /\ HistOf(hist, KeyOf(S_h, S_switch)) # <<>>
    /\ hist[KeyOf(S_h, S_switch)][1].before = None
    /\ hist[KeyOf(S_h, S_switch)][1].value = S_true
    /\ hist[KeyOf(S_h, S_switch)][1].topic = <<"P", "/", "h", "/", "s", "t", "a", "t", "e", "/", "s", "w", "i", "t", "c", "h">>
    /\ HistOf(hist, KeyOf(S_h, S_target_temp)) # <<>>
    /\ hist[KeyOf(S_h, S_target_temp)][1].before = None
    /\ hist[KeyOf(S_h, S_target_temp)][1].value = S_21
    /\ hist[KeyOf(S_h, S_target_temp)][1].topic = <<"P", "/", "h", "/", "s", "t", "a", "t", "e", "/", "t", "a", "r", "g", "e", "t", "_", "t", "e", "m", "p">>

\* C20: a reading whose dp_id is not in the mapping table gives a StateUpdate
\* with the dp_id as dp_code, which goes through the update channel to the
\* publish; a heartbeat acknowledgement gives no StateUpdate, whatever it
\* carries.
C20_UnmappedKeptBeatSkipped ==
    /\ \A d \in Dev : \A b \in env.batches :
          LET ups == ProcessBatch(devices[d], b)
          IN  /\ ups = ProcessBatch(devices[d], Decoded(b))
              /\ Decoded(b) = <<>> => ups = <<>>
              /\ \A j \in DOMAIN Decoded(b) :
                    \A id \in DOMAIN DpsOf(Decoded(b)[j]) \ DOMAIN devices[d].dp_mapping :
                        \E i \in DOMAIN ups :
                            /\ ups[i].dp_code = id
                            /\ ups[i].topic_name = devices[d].topic_name
                            /\ ups[i].value = TextOf(id, DpsOf(Decoded(b)[j])[id])
    /\ \A d \in Dev : \E b \in env.batches : HoldsTailOf(d, ProcessBatch(devices[d], Decoded(b)))
    /\ \A k \in DOMAIN cache :
          k = KeyOf(S_h, S_switch) => cache[k] # S_false

\* the unmapped reading {"9": 5} was published under dp_code "9", and the
\* heartbeat's reading of the switch was not
C20_Witness ==
    /\ MapGet(cache, KeyOf(S_h, S_9)) = Some(<<"5">>)
    /\ MapGet(cache, KeyOf(S_h, S_mode)) = Some(S_cool)
    /\ MapGet(cache, KeyOf(S_h, S_switch)) = None

(***************************************************************************)
(* The queries of a session: the initial one and those of the poll timer   *)
(***************************************************************************)
InitQuery ==
    /\ InitBridge(<<DevA>>, SmallCaps,
            [inMsgs |-> {MsgSwitchOnA}, batches |-> {BatchTrue}, trace |-> {}, watch |-> {},
             count |-> {1}, tags |-> {}])
    /\ ParseIdle

NextQuery ==
    \/ (\E d \in Dev : SessionStep(d))
    \/ BrokerConnAck
    \/ (\E m \in env.inMsgs : BrokerIncoming(m))
    \/ BrokerSend
    \/ BrokerDpRecv
    \/ RouterRecv
    \/ RouterSend

SpecQuery == InitQuery /\ [][NextQuery]_vars

\* a step of the session of d that only the select loop of run_session takes:
\* an inbound batch is taken, a command is taken off the channel, or a
\* heartbeat, a stream or a write outcome is recorded
LoopStep(d) ==
    \/ pend'[d] # pend[d]
    \/ Len(cmdq'[d]) < Len(cmdq[d])
    \/ /\ lastOp'[d] # lastOp[d]
       /\ lastOp'[d] \in {"heartbeat_failed", "device_error", "channel_closed", "write_failed"}

\* C21: a session enters Active having issued exactly one query (the full
\* query_all_dps) and with the first tick of the poll timer consumed; no
\* heartbeat, inbound batch or command write of the session comes before that
\* query; every further query is issued at a later tick of the poll timer, one
\* per tick, so the first tick issues none.
C21_OneQueryOnEntry ==
    /\ [](\A d \in Dev \cap env.count :
             IsActive(d) => (queries[d] >= 1 /\ queries[d] = ticks[d]))
    /\ [][\A d \in Dev \cap env.count :
             (spc[d] = "connecting" /\ spc'[d] = "active") =>
                 (queries[d] = 0 /\ ticks[d] = 0 /\ queries'[d] = 1 /\ ticks'[d] = 1)]_vars
    /\ [][\A d \in Dev \cap env.count : LoopStep(d) => queries[d] >= 1]_vars
    /\ [][\A d \in Dev \cap env.count :
             (IsActive(d) /\ queries'[d] # queries[d]) =>
                 /\ ticks[d] >= 1
                 /\ ticks'[d] = ticks[d] + 1
                 /\ queries'[d] = queries[d] + 1
                 /\ ~LoopStep(d)
                 /\ lastOp'[d] \in {"ok", "query_failed"}]_vars

\* a session that came up after a failed attempt has queried at entry and at
\* one later poll tick, and a command waits
C21_Witness ==
    /\ spc[1] = "active"
    /\ backoff[1] = 10
    /\ queries[1] = 2
    /\ ticks[1] = 2
    /\ cmdq[1] # <<>>

(***************************************************************************)
(* The retained flag of state publishes: two devices that share telemetry  *)
(* codes                                                                   *)
(***************************************************************************)
S_s == <<"s">>
S_t == <<"t">>
S_7 == <<"7">>
S_8 == <<"8">>
S_grid == <<"g", "r", "i", "d">>

DevS ==
    MakeDevice(S_s,
        (S_1 :> [code |-> S_switch, dp_type |-> [kind |-> "Boolean"]])
        @@ (S_7 :> [code |-> S_solar_power, dp_type |-> [kind |-> "Integer"]])
        @@ (S_8 :> [code |-> S_grid_power, dp_type |-> [kind |-> "Integer"]]))

\* the codes under other dp_ids, and a code that is a prefix of listed ones
DevT ==
    MakeDevice(S_t,
        (S_1 :> [code |-> S_solar_power, dp_type |-> [kind |-> "Integer"]])
        @@ (S_7 :> [code |-> S_grid_percent, dp_type |-> [kind |-> "Integer"]])
        @@ (S_8 :> [code |-> S_grid, dp_type |-> [kind |-> "Integer"]]))

\* the message {"1": 5, "7": 6, "8": 7}: solar_power is 6 on s and 5 on t
BatchThree == <<StructMsg((S_1 :> JNum(5)) @@ (S_7 :> JNum(6)) @@ (S_8 :> JNum(7)))>>

RetainCodes == {S_switch, S_solar_power, S_grid_power, S_grid_percent, S_grid}

InitRetain ==
    /\ InitBridge(<<DevS, DevT>>, SmallCaps,
            [inMsgs |-> {}, batches |-> {BatchThree}, trace |-> {},
             watch |-> {KeyOf(S_s, S_switch), KeyOf(S_s, S_solar_power), KeyOf(S_s, S_grid_power),
                        KeyOf(S_t, S_solar_power), KeyOf(S_t, S_grid_percent), KeyOf(S_t, S_grid)},
             count |-> {}, tags |-> {}])
    /\ ParseIdle

NextRetain ==
    \/ (\E d \in Dev : EnterActive(d))
    \/ (\E d \in Dev : \E batch \in env.batches : Recv(d, batch))
    \/ (\E d \in Dev : Forward(d))
    \/ BrokerDpRecv

SpecRetain == InitRetain /\ [][NextRetain]_vars

\* C22: every state publish call goes to P/{topic_name}/state/{dp_code}; it is
\* retained unless the dp_code is solar_power, grid_power or grid_percent, and
\* then it is not: the flag is the same for every device and value.
C22_RetainedUnlessListed ==
    \A k \in env.watch : \A i \in DOMAIN HistOf(hist, k) :
        hist[k][i].called =>
            \E d \in Dev : \E code \in RetainCodes :
                /\ k = devices[d].topic_name \o SLASH \o code
                /\ hist[k][i].topic =
                        topic_prefix \o SLASH \o devices[d].topic_name \o SLASH
                            \o S_state \o SLASH \o code
                /\ hist[k][i].retain =
                        (code \notin {S_solar_power, S_grid_power, S_grid_percent})

\* solar_power was published non-retained for both devices, with different
\* values, grid_power and grid_percent non-retained, and the switch of device
\* s and grid of device t retained
C22_Witness ==
    /\ \A k \in env.watch : HistOf(hist, k) # <<>> /\ hist[k][1].called
    /\ hist[KeyOf(S_s, S_solar_power)][1].value = <<"6">>
    /\ ~hist[KeyOf(S_s, S_solar_power)][1].retain
    /\ hist[KeyOf(S_t, S_solar_power)][1].value = <<"5">>
    /\ ~hist[KeyOf(S_t, S_solar_power)][1].retain
    /\ ~hist[KeyOf(S_s, S_grid_power)][1].retain
    /\ ~hist[KeyOf(S_t, S_grid_percent)][1].retain
    /\ hist[KeyOf(S_s, S_switch)][1].retain
    /\ hist[KeyOf(S_t, S_grid)][1].retain
    /\ hist[KeyOf(S_t, S_grid)][1].topic = <<"P", "/", "t", "/", "s", "t", "a", "t", "e", "/", "g", "r", "i", "d">>

(***************************************************************************)
(* The three bounded channels as a cycle: broker task -> router -> session *)
(* -> broker task                                                          *)
(***************************************************************************)
\* the broker task waits in command_tx.send for room in the router's channel
BrokerBlocked == bpc = "send" /\ Len(mqttq) = cap.mqtt

\* the router waits in cmd_tx.send for room in the command channel of d
RouterBlockedOn(d) ==
    mpc = "sending" /\ held.some /\ held.val.dev = d /\ Len(cmdq[d]) = cap.cmd

\* the session of d waits in dp_tx.send for room in the update channel
SessionBlocked(d) == spc[d] = "forwarding" /\ Len(dpq) = cap.dp

\* C23: the broker task, the router and a device session are never all three
\* blocked in a send, each on the channel that only the next one drains.
C23_NoCircularWait ==
    \A d \in Dev : ~(BrokerBlocked /\ RouterBlockedOn(d) /\ SessionBlocked(d))

(***************************************************************************)
(* The connection acknowledgement and what follows it                      *)
(***************************************************************************)
\* C24: whenever the event loop holds a broker connection, the ConnAck that
\* opened it was followed by "online" for every device and by the subscription
\* of every device's command topic, whichever poll received the ConnAck.
C24_ConnectedMeansSubscribed ==
    conn =>
        /\ subs = {device_command_topic(topic_prefix, devices[d].topic_name) : d \in Dev}
        /\ \A d \in Dev : device_status_topic(topic_prefix, devices[d].topic_name) \in online

(***************************************************************************)
(* The availability markers and the last will                              *)
(***************************************************************************)
\* C25: every topic that got a retained "online" is the topic registered for
\* the last will, and once the connection is lost every such topic has got
\* the will's "offline".
C25_OnlineCoveredByWill ==
    /\ \A t \in online : t = LwtTopic
    /\ (~conn /\ bpc # "aborted") => online \subseteq offline

(***************************************************************************)
(* Commands that wait while no session is Active                           *)
(***************************************************************************)
InitQueue ==
    /\ InitBridge(<<DevA>>, SmallCaps,
            [inMsgs |-> {MsgSwitchOnA}, batches |-> {BatchTrue}, trace |-> {}, watch |-> {},
             count |-> {}, tags |-> {1}])
    /\ ParseIdle

NextQueue ==
    \/ (\E d \in Dev : SessionStep(d))
    \/ BrokerConnAck
    \/ (\E m \in env.inMsgs : BrokerIncoming(m))
    \/ BrokerSend
    \/ BrokerDpRecv
    \/ RouterRecv
    \/ RouterSend

SpecQueue == InitQueue /\ [][NextQueue]_vars

\* C26 as stated: a command enqueued while no session was Active is written
\* by the next session that becomes Active: a session that ends leaves no
\* such command in the channel.
C26_WrittenByNextActive ==
    [][\A d \in Dev \cap env.tags :
          (IsActive(d) /\ spc'[d] = "sleeping") =>
              \A i \in DOMAIN queuedAt'[d] : queuedAt'[d][i] = 0]_vars

\* C26 amended: a command enqueued while no session is Active stays queued,
\* in its place, through session ends, sleeps and connect attempts; a command
\* leaves the channel only from the front, taken by a session that is Active
\* at its select, which writes it and stays Active; a session that becomes
\* Active may end before it has taken the command, which then waits for a
\* later session.
C26_QueuedUntilActiveWrite ==
    /\ [](\A d \in Dev \cap env.tags : Len(queuedAt[d]) = Len(cmdq[d]))
    /\ [][\A d \in Dev \cap env.tags :
             spc[d] # "active" =>
                 /\ Len(cmdq'[d]) >= Len(cmdq[d])
                 /\ SubSeq(cmdq'[d], 1, Len(cmdq[d])) = cmdq[d]
                 /\ SubSeq(queuedAt'[d], 1, Len(cmdq[d])) = queuedAt[d]]_vars
    /\ [][\A d \in Dev \cap env.tags :
             spc'[d] # spc[d] => (cmdq'[d] = cmdq[d] /\ queuedAt'[d] = queuedAt[d])]_vars
    /\ [][\A d \in Dev \cap env.tags :
             Len(cmdq'[d]) < Len(cmdq[d]) =>
                 /\ spc[d] = "active" /\ spc'[d] = "active"
                 /\ cmdq'[d] = Tail(cmdq[d])
                 /\ queuedAt'[d] = Tail(queuedAt[d])
                 /\ lastOp'[d] \in {"ok", "write_failed"}]_vars

\* two commands, one enqueued before the first sleep was over and one two
\* sleeps later, wait in that order at a session that is Active after three
\* failed sessions
C26_Witness ==
    /\ spc[1] = "active"
    /\ backoff[1] = 40
    /\ queuedAt[1] = <<5, 20>>
    /\ Len(cmdq[1]) = 2

====
